---- MODULE Spec2Model ----
(***************************************************************************)
(* A model of octoprint_printerHistory/configurationManager.py:            *)
(* ConfigurationManager keeps an encryption key and its salt in two files  *)
(* (key.key, salt.key), a JSON configuration document in config.json, and  *)
(* encrypts single strings with AES-EAX under the key.                     *)
(*                                                                         *)
(* Every method is a sequence of steps, one per system call or statement   *)
(* group, written as a pure function Step(d, m, fail, seed) of the disk d  *)
(* and of the instance's memory m.  Spec and SpecCipher run a method from  *)
(* its first step to its return in one action (the component is            *)
(* synchronous); SpecConc interleaves the steps of two instances that      *)
(* share the data folder.                                                  *)
(***************************************************************************)
EXTENDS Integers, Sequences, FiniteSets, TLC

VARIABLES disk, mem, last, blob, dec

vars == <<disk, mem, last, blob, dec>>

(***************************************************************************)
(* Program constants and model bounds.                                     *)
(***************************************************************************)
SaltLen == 16
KeyLen == 32
NonceLen == 16
TagEnd == 32

\* how many different values get_random_bytes(16) may return for a salt
NumSalts == 2
\* longest partial mapping handed to _update_config
MaxPartial == 1

Proc == {"p1", "p2"}
\* the instance of the one-call-at-a-time specifications
Main == "p1"

(***************************************************************************)
(* Bytes, files, and the two library functions of key generation.          *)
(***************************************************************************)
RECURSIVE SumSeq(_)
SumSeq(s) ==
    IF Len(s) = 0 THEN 0
    ELSE IF Len(s) = 1 THEN s[1]
    ELSE LET half == Len(s) \div 2
         IN  SumSeq(SubSeq(s, 1, half)) + SumSeq(SubSeq(s, half + 1, Len(s)))

\* A file: whether the path exists, and its content (bytes, or JSON tokens).
NoFile == [exists |-> FALSE, data |-> <<>>]

FileOf(content) == [exists |-> TRUE, data |-> content]

\* os.path.exists
PathExists(f) == f.exists

\* A write of `new` at offset 0 into a file that holds `old`: what lies
\* beyond the written length stays (open(.., 'w') truncated the file
\* earlier, but another writer may have written since).
Overlay(old, new) == new \o SubSeq(old, Len(new) + 1, Len(old))

\* Crypto.Random.get_random_bytes(n): the draw is the input `seed`.
GetRandomBytes(seed, n) == [i \in 1..n |-> (seed * 41 + i * 7) % 256]

\* Crypto.Protocol.KDF.scrypt(b'some_password', salt, n, ...): a
\* deterministic function of the salt.
Scrypt(salt, n) ==
    [i \in 1..n |-> (salt[((i - 1) % Len(salt)) + 1] * 5 + i * 3 + 11) % 256]

Unset == [set |-> FALSE, val |-> <<>>]

Bound(v) == [set |-> TRUE, val |-> v]

(***************************************************************************)
(* The configuration document.  A dict is a sequence of <<key, value>>     *)
(* pairs with distinct keys, in insertion order; a value is the text of    *)
(* its JSON literal.  The file holds tokens: an opening brace, one token   *)
(* per entry, a closing brace.                                             *)
(***************************************************************************)
get_default_config ==
    << <<"db_user", "\"user\"">>, <<"db_password", "\"password\"">>,
       <<"db_host", "\"host\"">>, <<"db_port", "\"3306\"">>,
       <<"db_database", "\"database\"">>, <<"printer_id", "0">>,
       <<"currency", "\"\\u20ac\"">>, <<"electricity_cost", "0.0">> >>

LBrace == <<"{", "">>
RBrace == <<"}", "">>
Punct == {LBrace, RBrace}

\* json.dump(obj, f, indent=4) of a dict
JsonDump(doc) == <<LBrace>> \o doc \o <<RBrace>>

DictKeys(doc) == {doc[i][1] : i \in 1..Len(doc)}

\* d[k] = v: in place when k is present, appended otherwise
DictSet(doc, k, v) ==
    IF k \in DictKeys(doc)
    THEN [i \in 1..Len(doc) |-> IF doc[i][1] = k THEN <<k, v>> ELSE doc[i]]
    ELSE Append(doc, <<k, v>>)

\* a plausible slip: the stored document is replaced by the partial one
DictUpdateReplace(doc, data) == data

\* dict.update(data)
RECURSIVE DictUpdate(_, _)
DictUpdate(doc, data) ==
    IF data = <<>> THEN doc
    ELSE DictUpdate(DictSet(doc, Head(data)[1], Head(data)[2]), Tail(data))

\* json.load(f): the text of an object parses to a dict (a repeated key
\* keeps its last value); an empty or damaged text raises JSONDecodeError.
LoadFailed == [ok |-> FALSE, doc |-> <<>>]

JsonLoad(text) ==
    LET n == Len(text)
        body == SubSeq(text, 2, n - 1)
    IN  IF n >= 2 /\ text[1] = LBrace /\ text[n] = RBrace
           /\ \A i \in 1..Len(body) : body[i] \notin Punct
        THEN [ok |-> TRUE, doc |-> DictUpdate(<<>>, body)]
        ELSE LoadFailed

(***************************************************************************)
(* An instance's memory.  pc is the next step of the running method, or    *)
(* "idle"/"returned"/"raised" between calls.                               *)
(***************************************************************************)
\* race is history: whether the running _update_config began on a valid
\* stored document with no other call in flight, or joined such a call.
Fresh ==
    [pc |-> "idle", op |-> "none", key |-> Unset, salt |-> Unset,
     key_file_path |-> FALSE, config_file_path |-> FALSE,
     updated_settings |-> LoadFailed, data |-> <<>>, errors |-> FALSE,
     race |-> FALSE]

Resting == {"idle", "returned", "raised"}

AtRest(m) == m.pc \in Resting

St(d, m) == [d |-> d, m |-> m]

\* logger.error(...) in an except clause, then on to `next`
Logged(d, m, next) == St(d, [m EXCEPT !.errors = TRUE, !.pc = next])

(***************************************************************************)
(* _initialize_key_and_salt, step by step.                                 *)
(***************************************************************************)
\* line 122: generate unless both artifacts exist
GenerateBranchAlways(key_exists, salt_exists) == TRUE

GenerateBranch(key_exists, salt_exists) == ~(key_exists /\ salt_exists)

KsStatKey(d, m) ==
    St(d, [m EXCEPT !.key_file_path = TRUE,
                    !.pc = IF GenerateBranch(PathExists(d.key_file), TRUE)
                           THEN "ks_generate" ELSE "ks_stat_salt"])

KsStatSalt(d, m) ==
    St(d, [m EXCEPT !.pc = IF GenerateBranch(TRUE, PathExists(d.salt_file))
                           THEN "ks_generate" ELSE "ks_read_key"])

KsGenerate(d, m, seed) ==
    LET salt == GetRandomBytes(seed, SaltLen)
    IN  St(d, [m EXCEPT !.salt = Bound(salt),
                        !.key = Bound(Scrypt(salt, KeyLen)),
                        !.pc = "ks_open_key_w"])

KsOpenKeyW(d, m, fail) ==
    IF fail \/ ~d.config_folder
    THEN Logged(d, m, "cf_stat_folder")
    ELSE St([d EXCEPT !.key_file = FileOf(<<>>)], [m EXCEPT !.pc = "ks_write_key"])

KsWriteKey(d, m, fail) ==
    IF fail
    THEN Logged(d, m, "cf_stat_folder")
    ELSE St([d EXCEPT !.key_file = FileOf(Overlay(d.key_file.data, m.key.val))],
            [m EXCEPT !.pc = "ks_open_salt_w"])

KsOpenSaltW(d, m, fail) ==
    IF fail \/ ~d.config_folder
    THEN Logged(d, m, "cf_stat_folder")
    ELSE St([d EXCEPT !.salt_file = FileOf(<<>>)], [m EXCEPT !.pc = "ks_write_salt"])

KsWriteSalt(d, m, fail) ==
    IF fail
    THEN Logged(d, m, "cf_stat_folder")
    ELSE St([d EXCEPT !.salt_file = FileOf(Overlay(d.salt_file.data, m.salt.val))],
            [m EXCEPT !.pc = "cf_stat_folder"])

KsReadKey(d, m, fail) ==
    IF fail \/ ~PathExists(d.key_file)
    THEN Logged(d, m, "cf_stat_folder")
    ELSE St(d, [m EXCEPT !.key = Bound(d.key_file.data), !.pc = "ks_read_salt"])

KsReadSalt(d, m, fail) ==
    IF fail \/ ~PathExists(d.salt_file)
    THEN Logged(d, m, "cf_stat_folder")
    ELSE St(d, [m EXCEPT !.salt = Bound(d.salt_file.data), !.pc = "cf_stat_folder"])

(***************************************************************************)
(* _create_config_file, step by step.                                      *)
(***************************************************************************)
CfStatFolder(d, m) ==
    St(d, [m EXCEPT !.config_file_path = TRUE,
                    !.pc = IF ~d.config_folder THEN "cf_makedirs"
                           ELSE "cf_stat_file"])

\* os.makedirs stands outside any try: its OSError leaves the method (so
\* does FileExistsError, when another instance made the folder meanwhile)
CfMakedirs(d, m, fail) ==
    IF fail \/ d.config_folder
    THEN St(d, [m EXCEPT !.pc = "raised"])
    ELSE St([d EXCEPT !.config_folder = TRUE], [m EXCEPT !.pc = "cf_stat_file"])

\* line 38: write the default document only when the file is absent
ConfigMissingAlways(f) == TRUE

ConfigMissing(f) == ~PathExists(f)

CfStatFile(d, m) ==
    St(d, [m EXCEPT !.pc = IF ConfigMissing(d.config_file) THEN "cf_open_w"
                           ELSE "returned"])

CfOpenW(d, m, fail) ==
    IF fail \/ ~d.config_folder
    THEN Logged(d, m, "returned")
    ELSE St([d EXCEPT !.config_file = FileOf(<<>>)], [m EXCEPT !.pc = "cf_write"])

CfWrite(d, m, fail) ==
    IF fail
    THEN Logged(d, m, "returned")
    ELSE St([d EXCEPT !.config_file =
                 FileOf(Overlay(d.config_file.data, JsonDump(get_default_config)))],
            [m EXCEPT !.pc = "returned"])

(***************************************************************************)
(* _load_existing_config and _update_config, step by step.                 *)
(***************************************************************************)
\* open(None) raises TypeError, a missing file FileNotFoundError, a bad
\* text JSONDecodeError: all caught, logged, and None is returned
LoadExistingConfig(d, m, fail) ==
    IF fail \/ ~m.config_file_path \/ ~PathExists(d.config_file)
    THEN LoadFailed
    ELSE JsonLoad(d.config_file.data)

UpLoad(d, m, fail) ==
    LET got == LoadExistingConfig(d, m, fail)
    IN  St(d, [m EXCEPT !.updated_settings = got,
                        !.errors = ~got.ok,
                        !.pc = "up_update"])

\* line 95: None.update(data) raises AttributeError, which nothing catches
UpUpdate(d, m) ==
    IF ~m.updated_settings.ok
    THEN St(d, [m EXCEPT !.pc = "raised"])
    ELSE St(d, [m EXCEPT !.updated_settings.doc =
                             DictUpdate(m.updated_settings.doc, m.data),
                         !.pc = "up_open_w"])

UpOpenW(d, m, fail) ==
    IF fail \/ ~d.config_folder
    THEN Logged(d, m, "returned")
    ELSE St([d EXCEPT !.config_file = FileOf(<<>>)], [m EXCEPT !.pc = "up_write"])

UpWrite(d, m, fail) ==
    IF fail
    THEN Logged(d, m, "returned")
    ELSE St([d EXCEPT !.config_file =
                 FileOf(Overlay(d.config_file.data, JsonDump(m.updated_settings.doc)))],
            [m EXCEPT !.pc = "returned"])

(***************************************************************************)
(* One step of the running method, and a run to the method's end.          *)
(***************************************************************************)
Step(d, m, fail, seed) ==
    CASE m.pc = "ks_stat_key" -> KsStatKey(d, m)
      [] m.pc = "ks_stat_salt" -> KsStatSalt(d, m)
      [] m.pc = "ks_generate" -> KsGenerate(d, m, seed)
      [] m.pc = "ks_open_key_w" -> KsOpenKeyW(d, m, fail)
      [] m.pc = "ks_write_key" -> KsWriteKey(d, m, fail)
      [] m.pc = "ks_open_salt_w" -> KsOpenSaltW(d, m, fail)
      [] m.pc = "ks_write_salt" -> KsWriteSalt(d, m, fail)
      [] m.pc = "ks_read_key" -> KsReadKey(d, m, fail)
      [] m.pc = "ks_read_salt" -> KsReadSalt(d, m, fail)
      [] m.pc = "cf_stat_folder" -> CfStatFolder(d, m)
      [] m.pc = "cf_makedirs" -> CfMakedirs(d, m, fail)
      [] m.pc = "cf_stat_file" -> CfStatFile(d, m)
      [] m.pc = "cf_open_w" -> CfOpenW(d, m, fail)
      [] m.pc = "cf_write" -> CfWrite(d, m, fail)
      [] m.pc = "up_load" -> UpLoad(d, m, fail)
      [] m.pc = "up_update" -> UpUpdate(d, m)
      [] m.pc = "up_open_w" -> UpOpenW(d, m, fail)
      [] m.pc = "up_write" -> UpWrite(d, m, fail)
      [] OTHER -> St(d, m)

\* Run the method to its end, the system calls named in F failing; stop
\* before step `crash` (the process dies there).
RECURSIVE Run(_, _, _, _, _)
Run(d, m, F, seed, crash) ==
    IF AtRest(m) \/ m.pc = crash THEN St(d, m)
    ELSE LET s == Step(d, m, m.pc \in F, seed)
         IN  Run(s.d, s.m, F, seed, crash)

\* the locals of a method are gone when it has returned
Leave(m) == [m EXCEPT !.updated_settings = LoadFailed]

\* the call of _initialize_config_files (lines 65-70)
EnterInitialize(m) ==
    [m EXCEPT !.pc = "ks_stat_key", !.op = "initialize", !.errors = FALSE,
              !.data = <<>>, !.updated_settings = LoadFailed,
              !.race = FALSE]

\* the call of _update_config(data)
EnterUpdate(m, data) ==
    [m EXCEPT !.pc = "up_load", !.op = "update", !.errors = FALSE,
              !.data = data, !.updated_settings = LoadFailed,
              !.race = FALSE]

(***************************************************************************)
(* Strings and their encodings.  A string is a sequence of code points, a  *)
(* base64 text a sequence of characters: 0..63 the alphabet, Pad the "=",  *)
(* Stray a character outside the alphabet ("!", a line break, ...).        *)
(***************************************************************************)
Pad == 64
Stray == 65

Min(a, b) == IF a < b THEN a ELSE b

\* data[a:b]
Slice(data, a, b) == SubSeq(data, a + 1, Min(b, Len(data)))

\* str.encode(): UTF-8
Utf8Char(cp) ==
    IF cp < 128 THEN <<cp>>
    ELSE IF cp < 2048 THEN <<192 + (cp \div 64), 128 + (cp % 64)>>
    ELSE IF cp < 65536
    THEN <<224 + (cp \div 4096), 128 + ((cp \div 64) % 64), 128 + (cp % 64)>>
    ELSE <<240 + (cp \div 262144), 128 + ((cp \div 4096) % 64),
           128 + ((cp \div 64) % 64), 128 + (cp % 64)>>

RECURSIVE Utf8Encode(_)
Utf8Encode(str) ==
    IF str = <<>> THEN <<>> ELSE Utf8Char(Head(str)) \o Utf8Encode(Tail(str))

IsCont(b) == b >= 128 /\ b <= 191

\* bytes.decode(): UTF-8, strict; [ok, str], ok = FALSE for
\* UnicodeDecodeError (a ValueError)
RECURSIVE Utf8Decode(_)
Utf8Decode(b) ==
    IF b = <<>> THEN [ok |-> TRUE, str |-> <<>>]
    ELSE
    LET b0 == b[1]
        n == IF b0 < 128 THEN 1
             ELSE IF b0 >= 194 /\ b0 <= 223 THEN 2
             ELSE IF b0 >= 224 /\ b0 <= 239 THEN 3
             ELSE IF b0 >= 240 /\ b0 <= 244 THEN 4
             ELSE 0
        wellformed == n > 0 /\ Len(b) >= n /\ \A i \in 2..n : IsCont(b[i])
        cp == IF n = 1 THEN b0
              ELSE IF n = 2 THEN (b0 - 192) * 64 + (b[2] - 128)
              ELSE IF n = 3
              THEN (b0 - 224) * 4096 + (b[2] - 128) * 64 + (b[3] - 128)
              ELSE (b0 - 240) * 262144 + (b[2] - 128) * 4096
                   + (b[3] - 128) * 64 + (b[4] - 128)
        scalar == /\ (n = 3 => cp >= 2048 /\ ~(cp >= 55296 /\ cp <= 57343))
                  /\ (n = 4 => cp >= 65536 /\ cp <= 1114111)
    IN  IF ~wellformed THEN [ok |-> FALSE, str |-> <<>>]
        ELSE IF ~scalar THEN [ok |-> FALSE, str |-> <<>>]
        ELSE LET rest == Utf8Decode(SubSeq(b, n + 1, Len(b)))
             IN  [ok |-> rest.ok, str |-> IF rest.ok THEN <<cp>> \o rest.str ELSE <<>>]

\* base64.b64encode: character j of the text, three bytes to a quad
B64Encode(b) ==
    LET n == Len(b)
        at(i) == IF i <= n THEN b[i] ELSE 0
    IN  [j \in 1..(4 * ((n + 2) \div 3)) |->
            LET g == (j - 1) \div 4
                r == (j - 1) % 4
                b1 == at(3 * g + 1)
                b2 == at(3 * g + 2)
                b3 == at(3 * g + 3)
            IN  IF r = 0 THEN b1 \div 4
                ELSE IF r = 1 THEN (b1 % 4) * 16 + (b2 \div 16)
                ELSE IF r = 2
                THEN IF 3 * g + 2 > n THEN Pad ELSE (b2 % 16) * 4 + (b3 \div 64)
                ELSE IF 3 * g + 3 > n THEN Pad ELSE b3 % 64]

IsData(c) == c < 64

\* the alphabet characters among the first i characters of a text
DataUpTo(text, i) == SelectSeq(SubSeq(text, 1, i), IsData)

\* binascii.a2b_base64 reads on until a pad completes a quad: the pad
\* after three characters of a quad, or the second pad in a row after two
PadEnds(text, i) ==
    LET quad == Len(DataUpTo(text, i)) % 4
    IN  /\ text[i] = Pad
        /\ \/ quad = 3
           \/ quad = 2 /\ \E j \in 1..(i - 1) :
                              /\ text[j] = Pad
                              /\ DataUpTo(text, j) = DataUpTo(text, i)

\* base64.b64decode(s) with validate=False, as binascii.a2b_base64 does it:
\* a character outside the alphabet is skipped, the text after a pad that
\* completes a quad is not read, and a quad left open at the end of the
\* text raises binascii.Error (ok = FALSE).  The bytes are those of the
\* alphabet characters read, four to three.
B64Decode(text) ==
    LET ends == {i \in 1..Len(text) : PadEnds(text, i)}
        stopped == ends # {}
        read == IF stopped
                THEN DataUpTo(text, CHOOSE i \in ends : \A j \in ends : i <= j)
                ELSE DataUpTo(text, Len(text))
        n == Len(read)
        count == 3 * (n \div 4) + (IF n % 4 = 0 THEN 0 ELSE (n % 4) - 1)
        byte(k) ==
            LET g == 4 * ((k - 1) \div 3)
                r == (k - 1) % 3
            IN  IF r = 0 THEN read[g + 1] * 4 + (read[g + 2] \div 16)
                ELSE IF r = 1 THEN (read[g + 2] % 16) * 16 + (read[g + 3] \div 4)
                ELSE (read[g + 3] % 4) * 64 + read[g + 4]
    IN  IF ~stopped /\ n % 4 # 0 THEN [ok |-> FALSE, bytes |-> <<>>]
        ELSE [ok |-> TRUE, bytes |-> [k \in 1..count |-> byte(k)]]

\* RFC 4648: whole quads of alphabet characters, at most two pads, at the end
IsBase64(text) ==
    /\ Len(text) % 4 = 0
    /\ \A i \in 1..Len(text) :
           \/ text[i] < 64
           \/ text[i] = Pad /\ i >= Len(text) - 1
                /\ (i = Len(text) - 1 => text[Len(text)] = Pad)

(***************************************************************************)
(* AES in EAX mode (Crypto.Cipher.AES), as far as the two methods use it:  *)
(* a keystream cipher whose keystream depends on key and nonce, and a      *)
(* 16-byte tag over key, nonce and ciphertext that differs whenever one    *)
(* byte of the nonce or of the ciphertext does.                            *)
(***************************************************************************)
\* AES.new(key, AES.MODE_EAX, nonce=nonce): ValueError unless the key has
\* 16, 24 or 32 bytes and the nonce is not empty
AesNewOk(key, nonce) == Len(key) \in {16, 24, 32} /\ Len(nonce) > 0

KeyStream(key, nonce, i) ==
    (key[((i - 1) % Len(key)) + 1] * 3 + nonce[((i - 1) % Len(nonce)) + 1] + i) % 256

EaxEncrypt(key, nonce, pt) ==
    [i \in 1..Len(pt) |-> (pt[i] + KeyStream(key, nonce, i)) % 256]

EaxDecrypt(key, nonce, ct) ==
    [i \in 1..Len(ct) |-> (ct[i] + 256 - KeyStream(key, nonce, i)) % 256]

EaxDigest(key, nonce, ct) ==
    LET h == SumSeq(key) + SumSeq(nonce) * 3 + SumSeq(ct) * 5 + Len(ct)
    IN  [j \in 1..(TagEnd - NonceLen) |-> (h + j * 7) % 256]

(***************************************************************************)
(* _encrypt and _decrypt.                                                  *)
(***************************************************************************)
Raised == [raised |-> TRUE, ok |-> FALSE, val |-> <<>>]
Failure == [raised |-> FALSE, ok |-> FALSE, val |-> <<>>]
Value(v) == [raised |-> FALSE, ok |-> TRUE, val |-> v]

\* a plausible slip: the tag after the ciphertext
BlobLayoutTagLast(nonce, tag, ciphertext) == nonce \o ciphertext \o tag

\* line 154: cipher.nonce + tag + ciphertext
BlobLayout(nonce, tag, ciphertext) == nonce \o tag \o ciphertext

\* _encrypt(password), the cipher drawing `nonce`.  self.key is no
\* attribute before _initialize_key_and_salt set it (AttributeError), and
\* AES.new refuses a key of a wrong length (ValueError): both leave the
\* method as exceptions.
Encrypt(m, password, nonce) ==
    IF ~m.key.set \/ ~AesNewOk(m.key.val, nonce) THEN Raised
    ELSE LET ciphertext == EaxEncrypt(m.key.val, nonce, Utf8Encode(password))
             tag == EaxDigest(m.key.val, nonce, ciphertext)
         IN  Value(B64Encode(BlobLayout(nonce, tag, ciphertext)))

\* a plausible slip: the tag taken one byte short
SplitBlobOff(data) ==
    [nonce |-> Slice(data, 0, NonceLen), tag |-> Slice(data, NonceLen, TagEnd - 1),
     ciphertext |-> Slice(data, TagEnd - 1, Len(data))]

\* line 174: data[:16], data[16:32], data[32:]
SplitBlob(data) ==
    [nonce |-> Slice(data, 0, NonceLen), tag |-> Slice(data, NonceLen, TagEnd),
     ciphertext |-> Slice(data, TagEnd, Len(data))]

\* _decrypt(encrypted_password): ValueError, KeyError and binascii.Error
\* are caught and None is returned; the AttributeError of an unset
\* self.key is not.
Decrypt(m, encrypted_password) ==
    LET data == B64Decode(encrypted_password)
        parts == SplitBlob(data.bytes)
    IN  IF ~data.ok THEN Failure
        ELSE IF ~m.key.set THEN Raised
        ELSE IF ~AesNewOk(m.key.val, parts.nonce) THEN Failure
        ELSE IF EaxDigest(m.key.val, parts.nonce, parts.ciphertext) # parts.tag
        THEN Failure
        ELSE LET text == Utf8Decode(EaxDecrypt(m.key.val, parts.nonce, parts.ciphertext))
             IN  IF text.ok THEN Value(text.str) ELSE Failure

(***************************************************************************)
(* The inputs of the calls.                                                *)
(***************************************************************************)
KsFaults ==
    {"ks_open_key_w", "ks_write_key", "ks_open_salt_w", "ks_write_salt",
     "ks_read_key", "ks_read_salt"}
CfFaults == {"cf_makedirs", "cf_open_w", "cf_write"}
UpFaults == {"up_load", "up_open_w", "up_write"}

AtMostOne(S) == {{}} \cup {{x} : x \in S}

\* An exception leaves its try block (or the method), so a call meets at
\* most one fault in _initialize_key_and_salt and one in
\* _create_config_file, and a process that dies met none before.
InitializeInputs ==
    {[F |-> KF \cup CF, crash |-> "none"] :
         KF \in AtMostOne(KsFaults), CF \in AtMostOne(CfFaults)}
    \cup
    {[F |-> {}, crash |-> c] : c \in {"ks_write_key", "ks_open_salt_w", "ks_write_salt"}}

\* the strings _encrypt is handed: "", "a", "e-acute a", "euro sign"
Plaintexts == {<<>>, <<97>>, <<233, 97>>, <<8364>>}

\* the nonces the cipher may draw
Nonces == {GetRandomBytes(5, NonceLen), GetRandomBytes(200, NonceLen)}

\* the texts _decrypt is handed, made from the blob at hand
InsertAt(text, j, c) == SubSeq(text, 1, j) \o <<c>> \o SubSeq(text, j + 1, Len(text))

DecryptInputs(text) ==
    LET raw == B64Decode(text).bytes
    IN  {[text |-> text, intact |-> TRUE, tampered |-> FALSE]}
        \cup {[text |-> B64Encode([raw EXCEPT ![i] = (raw[i] + delta) % 256]),
                intact |-> FALSE, tampered |-> TRUE] :
                   i \in 1..Len(raw), delta \in {1, 128}}
        \cup {[text |-> t, intact |-> FALSE, tampered |-> FALSE] :
                   t \in {B64Encode(SubSeq(raw, 1, n)) : n \in {0, 1, 16, 17, 31}}
                          \cup {InsertAt(text, j, Stray) : j \in {0, 21, Len(text)}}
                          \cup {SubSeq(text, 1, Len(text) - 1), <<Stray, Stray>>}}

UpdKeys == {"b", "db_password"}
UpdVals == {"3", "\"x\""}

RECURSIVE SeqsUpTo(_, _)
SeqsUpTo(S, n) ==
    IF n = 0 THEN {<<>>}
    ELSE LET shorter == SeqsUpTo(S, n - 1)
         IN  shorter \cup {Append(s, x) : s \in shorter, x \in S}

DistinctKeys(doc) == Cardinality(DictKeys(doc)) = Len(doc)

Partials == {P \in SeqsUpTo(UpdKeys \X UpdVals, MaxPartial) : DistinctKeys(P)}

(***************************************************************************)
(* The state after construction: no artifact yet; the host has made the    *)
(* data folder or has not.                                                 *)
(***************************************************************************)
InitDisks ==
    [config_folder : BOOLEAN, key_file : {NoFile}, salt_file : {NoFile},
     config_file : {NoFile}]

\* The last call: the method, its argument, how it ended ("returned",
\* "raised", or "crashed" when the process died inside), whether it logged
\* an error, and whether the call before it was a clean
\* _initialize_config_files() of the same instance.
NoCall == [op |-> "none", proc |-> "p1", data |-> <<>>, outcome |-> "none",
           errors |-> FALSE, again |-> FALSE]

Clean(c) == c.outcome = "returned" /\ ~c.errors

\* The blob at hand: the text the last _encrypt returned, its plaintext and
\* the key it was made under; raised: that _encrypt raised instead.
NoBlob == [made |-> FALSE, raised |-> FALSE, text |-> <<>>, plain |-> <<>>,
           key |-> <<>>]

\* The _decrypt of the blob at hand: what its input was (the blob itself;
\* the blob with one byte changed; a text that is not base64; a text
\* decoding to fewer than 32 bytes), whether the key in memory was the
\* blob's, and what the call returned.
NoDec == [done |-> FALSE, intact |-> FALSE, tampered |-> FALSE,
          notb64 |-> FALSE, short |-> FALSE, samekey |-> FALSE,
          result |-> Failure]

Init ==
    /\ disk \in InitDisks
    /\ mem = [p \in Proc |-> Fresh]
    /\ last = NoCall
    /\ blob = NoBlob
    /\ dec = NoDec

Called(op, p, data, m) ==
    [op |-> op, proc |-> p, data |-> data,
     outcome |-> IF AtRest(m) THEN m.pc ELSE "crashed", errors |-> m.errors,
     again |-> op = "initialize" /\ last.op = "initialize" /\ last.proc = p
               /\ Clean(last)]

(***************************************************************************)
(* Spec: the calls, one at a time.                                         *)
(***************************************************************************)
\* _initialize_config_files(): _initialize_key_and_salt(), then
\* _create_config_file().  A process that dies inside loses its memory.
InitializeWith(p, inputs) ==
    \E in \in inputs, seed \in 1..NumSalts :
        \E s \in {Run(disk, EnterInitialize(mem[p]), in.F, seed, in.crash)} :
            /\ \A q \in Proc : AtRest(mem[q])
            /\ disk' = s.d
            /\ mem' = [mem EXCEPT ![p] = IF AtRest(s.m) THEN Leave(s.m) ELSE Fresh]
            /\ last' = Called("initialize", p, <<>>, s.m)
            /\ UNCHANGED <<blob, dec>>

InitializeConfigFiles(p) == InitializeWith(p, InitializeInputs)

\* _update_config(data)
UpdateConfig(p) ==
    \E F \in AtMostOne(UpFaults), data \in Partials :
        \E s \in {Run(disk, EnterUpdate(mem[p], data), F, 0, "none")} :
            /\ \A q \in Proc : AtRest(mem[q])
            /\ disk' = s.d
            /\ mem' = [mem EXCEPT ![p] = Leave(s.m)]
            /\ last' = Called("update", p, data, s.m)
            /\ UNCHANGED <<blob, dec>>

\* the plugin is restarted: a new ConfigurationManager (lines 21-26)
Restart(p) ==
    /\ \A q \in Proc : AtRest(mem[q])
    /\ mem' = [mem EXCEPT ![p] = Fresh]
    /\ last' = [NoCall EXCEPT !.op = "restart", !.proc = p]
    /\ UNCHANGED <<disk, blob, dec>>

Next ==
    \/ InitializeConfigFiles(Main)
    \/ UpdateConfig(Main)
    \/ Restart(Main)

Spec == Init /\ [][Next]_vars

(***************************************************************************)
(* Claims checked under Spec.                                              *)
(***************************************************************************)
Lookup(doc, k) == doc[CHOOSE i \in 1..Len(doc) : doc[i][1] = k][2]

\* a dict as a mapping, whatever the order of its entries
AsMap(doc) == [k \in DictKeys(doc) |-> Lookup(doc, k)]

MergeMap(D, P) ==
    [k \in DOMAIN D \cup DOMAIN P |-> IF k \in DOMAIN P THEN P[k] ELSE D[k]]

StoredDoc(d) == JsonLoad(d.config_file.data)

\* C1: a second _initialize_config_files() in sequence, neither call
\* meeting an I/O error, leaves key.key, salt.key, config.json and the key
\* and salt in memory as the first call left them.
IdempotentInitialization ==
    [][(last'.op = "initialize" /\ last'.again /\ Clean(last'))
        => /\ disk' = disk
           /\ mem'[last'.proc].key = mem[last'.proc].key
           /\ mem'[last'.proc].salt = mem[last'.proc].salt]_vars

\* C1 witness: a second clean call has returned, with the generated key on
\* disk and in memory and the default document in place.
SecondInitializeDone ==
    /\ last.op = "initialize" /\ last.again /\ Clean(last)
    /\ disk.key_file.exists /\ Len(disk.key_file.data) = KeyLen
    /\ mem[Main].key = Bound(disk.key_file.data)
    /\ mem[Main].salt = Bound(disk.salt_file.data)
    /\ disk.config_file = FileOf(JsonDump(get_default_config))

\* C2: after an _update_config(P) that returned without logging an error,
\* the stored document maps each key of P to P's value and every other key
\* of the document loaded to its old value, and has no other key.
MergeSemantics ==
    [][(last'.op = "update" /\ Clean(last'))
        => /\ StoredDoc(disk).ok
           /\ StoredDoc(disk').ok
           /\ AsMap(StoredDoc(disk').doc)
                = MergeMap(AsMap(StoredDoc(disk).doc), AsMap(last'.data))]_vars

\* C2 witness: an update that overwrote db_password returned, the stored
\* document keeping db_user and holding the new value.
UpdateMerged ==
    /\ last.op = "update" /\ Clean(last)
    /\ last.data = << <<"db_password", "3">> >>
    /\ StoredDoc(disk).ok
    /\ AsMap(StoredDoc(disk).doc)["db_password"] = "3"
    /\ AsMap(StoredDoc(disk).doc)["db_user"] = "\"user\""

\* C3 (as claimed): when the load inside _update_config fails, the call
\* returns to its caller and leaves the file as it was.
UpdateFailsClosed ==
    [][(last'.op = "update"
        /\ mem[last'.proc].config_file_path
        /\ (~PathExists(disk.config_file) \/ ~StoredDoc(disk).ok))
        => (last'.outcome = "returned" /\ disk' = disk)]_vars

\* C4: an _initialize_config_files() that finds config.json leaves it as it
\* is; what it writes where the file was absent is the default document
\* (or nothing, when the write failed).
EnsureNeverOverwrites ==
    [][(last'.op = "initialize")
        => /\ PathExists(disk.config_file) => disk'.config_file = disk.config_file
           /\ disk'.config_file.data \in
                {disk.config_file.data, <<>>, JsonDump(get_default_config)}]_vars

\* C4 witness: the call returned over a document that an update had changed.
InitializeOverUpdatedDoc ==
    /\ last.op = "initialize" /\ last.outcome = "returned"
    /\ StoredDoc(disk).ok
    /\ StoredDoc(disk).doc # get_default_config

\* C7 (as claimed): no storage error leaves _initialize_config_files() as
\* an exception.
EnsureNeverRaises ==
    last.op = "initialize" => last.outcome # "raised"

\* C8 (as claimed): when _initialize_key_and_salt() has returned, the key
\* in memory has 32 bytes and the salt 16.
KeyMaterialLengths ==
    (last.op = "initialize" /\ last.outcome \in {"returned", "raised"})
        => /\ mem[last.proc].key.set /\ Len(mem[last.proc].key.val) = KeyLen
           /\ mem[last.proc].salt.set /\ Len(mem[last.proc].salt.val) = SaltLen

(***************************************************************************)
(* SpecCipher: initialization and the two cipher methods, one call at a    *)
(* time.                                                                   *)
(***************************************************************************)
\* _initialize_config_files() with no fault but what the disk itself causes
InitializeHealthy(p) == InitializeWith(p, {[F |-> {}, crash |-> "none"]})

\* _encrypt(password)
EncryptCall(p) ==
    \E password \in Plaintexts, nonce \in Nonces :
        \E r \in {Encrypt(mem[p], password, nonce)} :
            /\ blob' = [made |-> r.ok, raised |-> r.raised, text |-> r.val,
                        plain |-> IF r.ok THEN password ELSE <<>>,
                        key |-> IF r.ok THEN mem[p].key.val ELSE <<>>]
            /\ dec' = NoDec
            /\ UNCHANGED <<disk, mem, last>>

\* _decrypt(encrypted_password), once per blob (the call changes nothing)
DecryptCall(p) ==
    /\ blob.made
    /\ ~dec.done
    /\ \E in \in DecryptInputs(blob.text) :
           /\ dec' = [done |-> TRUE, intact |-> in.intact, tampered |-> in.tampered,
                      notb64 |-> ~IsBase64(in.text),
                      short |-> Len(B64Decode(in.text).bytes) < TagEnd,
                      samekey |-> mem[p].key = Bound(blob.key),
                      result |-> Decrypt(mem[p], in.text)]
           /\ UNCHANGED <<disk, mem, last, blob>>

NextCipher ==
    \/ InitializeHealthy(Main)
    \/ Restart(Main)
    \/ EncryptCall(Main)
    \/ DecryptCall(Main)

SpecCipher == Init /\ [][NextCipher]_vars

(***************************************************************************)
(* Claims checked under SpecCipher.                                        *)
(***************************************************************************)
\* C5: with the 32-byte key that initialization left in memory, _decrypt of
\* what _encrypt returned for a string is that string, whatever the nonce.
RoundTrip ==
    (dec.done /\ dec.intact /\ dec.samekey)
        => (dec.result.ok /\ dec.result.val = blob.plain)

\* C5 witness: a string with a non-ASCII character came back from _decrypt.
RoundTripDone ==
    /\ dec.done /\ dec.intact /\ dec.samekey
    /\ Len(mem[Main].key.val) = KeyLen
    /\ blob.plain = <<233, 97>>
    /\ dec.result = Value(<<233, 97>>)

\* C6 (as claimed): with a 32-byte key in memory, _decrypt of a text that
\* is not base64, or decodes to fewer than 32 bytes, or is a valid blob
\* with one byte changed, returns None: it neither raises nor returns a
\* plaintext.
DecryptFailsClosed ==
    (dec.done /\ dec.samekey /\ (dec.notb64 \/ dec.short \/ dec.tampered))
        => (~dec.result.raised /\ ~dec.result.ok)

(***************************************************************************)
(* SpecConc: two instances on one data folder, their calls interleaved     *)
(* step by step.  last names the instance that took the last step.         *)
(***************************************************************************)
Other(p) == CHOOSE q \in Proc : q # p

InUpdate(m) == m.op = "update" /\ ~AtRest(m)

Actor(p) == [NoCall EXCEPT !.op = "step", !.proc = p]

\* the partial documents the two instances pass to _update_config
ConcPartials == {<< <<"b", "3">> >>, << <<"db_password", "\"x\"">> >>}

\* the host initializes an instance once, at startup, and updates afterwards
StartInitialize(p) ==
    /\ mem[p].pc = "idle"
    /\ mem' = [mem EXCEPT ![p] = EnterInitialize(mem[p])]
    /\ last' = Actor(p)
    /\ UNCHANGED <<disk, blob, dec>>

StartUpdate(p) ==
    /\ AtRest(mem[p])
    /\ mem[p].pc # "idle"
    /\ \E data \in ConcPartials :
           mem' = [mem EXCEPT ![p] =
                      [EnterUpdate(mem[p], data) EXCEPT
                          !.race = IF InUpdate(mem[Other(p)])
                                   THEN mem[Other(p)].race
                                   ELSE AtRest(mem[Other(p)]) /\ StoredDoc(disk).ok]]
    /\ last' = Actor(p)
    /\ UNCHANGED <<disk, blob, dec>>

\* the next step of the call p is in
StepOf(p) ==
    /\ ~AtRest(mem[p])
    /\ \E seed \in 1..NumSalts :
           \E s \in {Step(disk, mem[p], FALSE, seed)} :
               /\ disk' = s.d
               /\ mem' = [mem EXCEPT ![p] = s.m]
    /\ last' = Actor(p)
    /\ UNCHANGED <<blob, dec>>

NextConc ==
    \/ \E p \in Proc : StartInitialize(p)
    \/ \E p \in Proc : StartUpdate(p)
    \/ \E p \in Proc : StepOf(p)

SpecConc == Init /\ [][NextConc]_vars

\* both artifacts are on disk, written in full
ArtifactsComplete(d) ==
    /\ PathExists(d.key_file) /\ Len(d.key_file.data) = KeyLen
    /\ PathExists(d.salt_file) /\ Len(d.salt_file.data) = SaltLen

Initialized(m) == m.op = "initialize" /\ m.pc = "returned" /\ ~m.errors

\* C9: once key.key and salt.key are both on disk, no step of any
\* _initialize_config_files(), started afterwards or running concurrently
\* with the one that created them, changes either artifact, and every
\* instance that has returned from it holds the key that is on disk.
KeyNeverRotated ==
    [][ArtifactsComplete(disk)
         => /\ disk'.key_file = disk.key_file
            /\ disk'.salt_file = disk.salt_file
            /\ \A p \in Proc :
                   Initialized(mem'[p]) => mem'[p].key = Bound(disk'.key_file.data)]_vars

Updated(m) == m.op = "update" /\ AtRest(m) /\ m.race

\* C10: when two overlapping _update_config calls that began on a valid
\* stored document have both ended, both have returned, and config.json
\* holds the document one of them wrote (its loaded snapshot merged with
\* its own partial), which is a valid document.
LastWriterWins ==
    (\A p \in Proc : Updated(mem[p]))
        => /\ \A p \in Proc : mem[p].pc = "returned"
           /\ StoredDoc(disk).ok
           /\ \E p \in Proc :
                  disk.config_file.data = JsonDump(mem[p].updated_settings.doc)

====
